---- MODULE Spec2Model ----
(***************************************************************************)
(* MIDI drum hits to LED flashes (led/midi_sync.py, led/drum_mapper.py,    *)
(* led/neon.py, led/midi_handler.py).                                      *)
(*                                                                         *)
(* Two concurrency domains:                                                *)
(*   - the MIDI listener thread, which runs MIDISync._midi_callback and    *)
(*     puts (note, velocity, timestamp) tuples into one of two bounded     *)
(*     asyncio queues;                                                     *)
(*   - the asyncio event loop, which runs MIDISync.run (the scheduling     *)
(*     loop) and the tasks it creates: one process_midi_event/_flash_led   *)
(*     task per dispatched event and one fade_back task per flash.         *)
(*                                                                         *)
(* Granularity.  A step of the listener thread is one call of a Queue      *)
(* method (put_nowait, get_nowait): the thread can be preempted between    *)
(* two calls but CPython runs one deque operation under the interpreter    *)
(* lock.  A step of an asyncio task runs from one suspension point to the  *)
(* next; tasks run only while the scheduling loop itself is suspended in   *)
(* asyncio.wait_for.  Time is counted in whole seconds.                    *)
(***************************************************************************)
EXTENDS Integers, Sequences, FiniteSets, TLC

VARIABLES
    kick_queue,         \* MIDISync.kick_queue: sequence of events, oldest first
    midi_queue,         \* MIDISync.midi_queue
    running,            \* MIDISync.running
    original_color,     \* MIDISync.original_color (None is <<>>)
    original_brightness,\* MIDISync.original_brightness (None is -1)
    active_led_task,    \* MIDISync.active_led_task: a task id, 0 is None
    active_kick_task,   \* MIDISync.active_kick_task
    loop,               \* position of MIDISync.run and its local kick_processed
    cb,                 \* position of _midi_callback on the listener thread
    tasks,              \* the asyncio tasks created so far, by id
    led,                \* what the LED device last received
    now,                \* time.time(), in seconds
    offersLeft,         \* environment: hits the drummer may still play, per class
    faultsLeft,         \* environment: actuator calls that may still raise
    ticksLeft,          \* environment: seconds the clock may still advance
    offered,            \* history: callbacks invoked so far, per class
    dropped,            \* history: events whose callback returned without queueing them
    evictions,          \* history: get_nowait calls of the callback that removed an event
    taken,              \* history: events the scheduling loop dequeued, with their age
    sincePoll,          \* history: kicks queued since run last polled kick_queue
    removed,            \* history: parity of the events removed from each queue
    observe,            \* whether the histories and the created tasks are followed
    signal,             \* environment: the interrupt (Ctrl+C) has been delivered
    mapper,             \* MIDISync.drum_mapper: the DrumMapper object's fields
    call,               \* the last call of a DrumMapper method or of the fade formula
    handler,            \* MIDIHandler: running, port, the thread self.thread names and
                        \* the listener threads alive that it names no longer (strays)
    heard,              \* history: messages the listener thread has processed, by outcome
    overtaken           \* the event loop's order: << p, u >> when task u has run since
                        \* task p was created and p has yet to take its first step

vars == << kick_queue, midi_queue, running, original_color, original_brightness,
           active_led_task, active_kick_task, loop, cb, tasks, led, now,
           offersLeft, faultsLeft, ticksLeft, offered, dropped, evictions, taken,
           sincePoll, removed, observe, overtaken, signal, mapper, call, handler, heard >>

-----------------------------------------------------------------------------
(* Bounds of the model *)

\* the clock stops after this many seconds
MaxTime == 2
\* hits played in the producer-only specification
OfferKicks == 7
OfferMidis == 12
\* hits played in the producer/consumer specification
QueueKicks == 6
QueueMidis == 1
\* hits played in the specification of the loop's order of service
PrioKicks == 3
PrioMidis == 1
\* hits played in the specification with the animation tasks
AnimKicks == 2
AnimMidis == 1
\* actuator calls that raise in the specification with the animation tasks
AnimFaults == 1
\* hits played in the specification with the animation tasks and the clock
StaleKicks == 1
StaleMidis == 1
\* hits played, and errors raised in the loop, in the specification of its errors
\* how far below 0 and above 127 the raw ids and intensities of the calls reach
RawIdMargin == 3
IntensityMargin == 20
RouteKicks == 2
RouteMidis == 2
LoopKicks == 2
LoopMidis == 2
LoopFaults == 2
\* seven rapid kicks against a queue of five
BurstKicks == 7
BurstMidis == 2
\* messages on the port: hits per class, callbacks that may raise, other messages
ListenKicks == 2
ListenMidis == 1
ListenFaults == 1
MaxQuiet == 2
\* ports the system may list
MaxPorts == 3
\* listener threads left behind by joins that timed out
MaxStrays == 2
\* how far beyond 0..100 the brightness given to set_brightness goes
BrightnessMargin == 3
RunKicks == 2
OrderKicks == 3
OrderMidis == 1
RunMidis == 1

(* Program constants *)

\* Queue(maxsize=5)
KickMaxsize == 5
\* Queue(maxsize=10)
MidiMaxsize == 10
\* max_event_age: float = 1.0
max_event_age == 1
\* self.original_brightness = 50
DefaultBrightness == 50

\* the notes and velocities the drummer plays in the model
Notes == {36, 38}
Velocities == {100}
\* the notes and velocities played in the specification of the routing: both kick
\* notes, their unmapped neighbours, a snare and an unmapped note
RouteNotes == {34, 35, 36, 37, 38, 60}
RouteVelocities == {127}
\* the arguments of the DrumMapper calls: raw ids and intensities around 0..127,
\* hit brightnesses 0..100, and the colors configured for some categories
RawIds == (0 - RawIdMargin)..(127 + RawIdMargin)
Intensities == (0 - IntensityMargin)..(127 + IntensityMargin)
Percent == 0..100
OverrideTypes == {"kick", "snare", "unknown"}
OverrideColors == {<< 0, 0, 255 >>, << 255, 0, 255 >>}

WHITE == << 255, 255, 255 >>
NoColor == << >>
NoEvent == [note |-> 0, velocity |-> 0, timestamp |-> 0, id |-> 0]
NoCall == [fn |-> "none", arg |-> << >>, result |-> << >>]

-----------------------------------------------------------------------------
(* led/drum_mapper.py *)

DRUM_NOTES(note) ==
    CASE note \in {35, 36} -> "kick"
      [] note \in {38, 40} -> "snare"
      [] note \in {42, 44, 46} -> "hihat"
      [] note \in {49, 57} -> "crash"
      [] note \in {51, 59} -> "ride"
      [] note \in {41, 43, 45, 47, 48, 50} -> "tom"
      [] OTHER -> "absent"

DEFAULT_DRUM_COLORS(drum_type) ==
    CASE drum_type = "kick" -> << 255, 0, 0 >>
      [] drum_type = "snare" -> << 255, 255, 255 >>
      [] drum_type = "hihat" -> << 0, 255, 255 >>
      [] drum_type = "crash" -> << 255, 255, 0 >>
      [] drum_type = "ride" -> << 255, 165, 0 >>
      [] drum_type = "tom" -> << 0, 255, 0 >>
      [] OTHER -> << 128, 128, 128 >>

\* class DrumType
DrumTypes == {"kick", "snare", "hihat", "crash", "ride", "tom", "unknown"}

\* DEFAULT_DRUM_COLORS.copy()
DefaultColors == [t \in DrumTypes |-> DEFAULT_DRUM_COLORS(t)]

\* a dict: the empty one (and None) is << >>
dict_get(d, key, default) == IF key \in DOMAIN d THEN d[key] ELSE default
dict_set(d, key, value) ==
    [k \in DOMAIN d \cup {key} |-> IF k = key THEN value ELSE d[k]]

\* DrumMapper.__init__: self.drum_colors = drum_colors or DEFAULT_DRUM_COLORS.copy();
\* configured is a history: the colors given to the constructor or set since
DrumMapper(drum_colors, velocity_to_brightness) ==
    [drum_colors |-> IF DOMAIN drum_colors = {} THEN DefaultColors ELSE drum_colors,
     velocity_to_brightness |-> velocity_to_brightness,
     configured |-> drum_colors]

\* a lookup that indexes the table, DRUM_NOTES[note], and so fails on a missing key
get_drum_type_indexed(note) == DRUM_NOTES(note)

\* DRUM_NOTES.get(note, DrumType.UNKNOWN)
get_drum_type(note) ==
    IF DRUM_NOTES(note) = "absent" THEN "unknown" ELSE DRUM_NOTES(note)

\* self.drum_colors.get(drum_type, DEFAULT_DRUM_COLORS[DrumType.UNKNOWN])
get_color(note) ==
    dict_get(mapper.drum_colors, get_drum_type(note), DEFAULT_DRUM_COLORS("unknown"))

\* int(x) of a quotient a / b with b > 0: rounds towards zero
int_div(a, b) == IF a >= 0 THEN a \div b ELSE 0 - ((0 - a) \div b)

\* a mapping that ignores the velocity_to_brightness switch
get_brightness_always_mapped(velocity) == 30 + int_div(velocity * (100 - 30), 127)

\* min_brightness + int((velocity / 127) * (max_brightness - min_brightness))
get_brightness(velocity) ==
    IF ~mapper.velocity_to_brightness
      THEN 100
      ELSE 30 + int_div(velocity * (100 - 30), 127)

-----------------------------------------------------------------------------
(* asyncio.Queue, as the program uses it *)

\* a Queue.full that lets one item more in than maxsize
full_above(q, maxsize) == Len(q) > maxsize
\* Queue.full: qsize() >= maxsize
full(q, maxsize) == Len(q) >= maxsize
empty(q) == Len(q) = 0
\* Queue._put: deque.append
q_put(q, item) == Append(q, item)
\* a get that removes the newest element (deque.pop) instead of the oldest
q_rest_newest(q) == SubSeq(q, 1, Len(q) - 1)

\* Queue._get: deque.popleft, the item and what is left
q_item(q) == Head(q)
q_rest(q) == Tail(q)

Max(a, b) == IF a >= b THEN a ELSE b
Min(a, b) == IF a <= b THEN a ELSE b
Range(s) == {s[i] : i \in DOMAIN s}

ClassOf(is_kick) == IF is_kick THEN "kick" ELSE "midi"
\* a routing that knows only the acoustic bass drum as a kick
IsKickNote36(note) == note = 36
\* is_kick = (drum_type == DrumType.KICK)
IsKickNote(note) == get_drum_type(note) = "kick"
QueueOf(cls) == IF cls = "kick" THEN kick_queue ELSE midi_queue
MaxsizeOf(cls) == IF cls = "kick" THEN KickMaxsize ELSE MidiMaxsize
\* one queue for the events of both classes
SetQueue_single(cls, q) ==
    /\ kick_queue' = q
    /\ midi_queue' = midi_queue
\* the queue of class cls becomes q, the other queue stays
SetQueue(cls, q) ==
    /\ kick_queue' = IF cls = "kick" THEN q ELSE kick_queue
    /\ midi_queue' = IF cls = "midi" THEN q ELSE midi_queue

\* kicks that entered kick_queue since the loop last called kick_queue.get_nowait
NoteQueued(cls, ev) ==
    sincePoll' = IF cls = "kick" THEN sincePoll \cup {ev} ELSE sincePoll

\* an event left the queue of class cls (get_nowait or get returned it)
NoteRemoved(cls) == removed' = [removed EXCEPT ![cls] = 1 - @]

\* the histories are kept only while observe holds; without it the events carry
\* no identity and the number of arrivals is unbounded
Record(S, x) == IF observe THEN S \cup {x} ELSE S

-----------------------------------------------------------------------------
(* MIDISync._midi_callback, on the listener thread *)

CbIdle == [pc |-> "idle", ev |-> NoEvent]

\* MIDIHandler.__init__, midi_handler.py lines 18-24
NewHandler == [running |-> FALSE, thread |-> "none", port |-> "none", strays |-> 0]

\* midi_handler.py line 63: self.port = mido.open_input(port_name); the port the
\* handler held before is neither closed nor remembered
open_input(h) == [h EXCEPT !.port = "open"]

\* MIDIHandler.start_listening, lines 135-147
start_listening(h) ==
    IF h.running THEN h
    ELSE IF h.port = "none" THEN h
    ELSE [h EXCEPT !.running = TRUE, !.thread = "alive"]

\* MIDIHandler.stop_listening, lines 149-158. The thread sits in the iteration
\* of the port and looks at running when a message comes: join(timeout=1.0)
\* returns with the thread ended (joined) or with the thread still alive, and
\* self.thread is cleared in both cases
stop_listening(h, joined) ==
    IF ~h.running THEN h
    ELSE [h EXCEPT !.running = FALSE, !.thread = "none",
                   !.strays = IF h.thread = "alive" /\ ~joined THEN @ + 1 ELSE @]

\* MIDIHandler.disconnect, lines 72-81. Whether port.close() ends a thread that
\* waits in the iteration is up to the backend: left of the strays stay alive
disconnect(h, joined, left) ==
    LET s == stop_listening(h, joined)
    IN IF s.port = "none" THEN s
       ELSE [s EXCEPT !.port = "none", !.strays = Min(left, s.strays)]

\* midi_handler.py lines 127-130: the listener thread is in its loop over the port
Listening == handler.running /\ handler.thread = "alive"

\* one more message of this kind went through _process_midi_message
Heard(kind) == heard' = IF observe THEN [heard EXCEPT ![kind] = @ + 1] ELSE heard

\* lines 138-157 / 169-172: classify, stamp, first put_nowait
midi_callback(note, velocity) ==
    /\ Listening
    /\ cb.pc = "idle"
    /\ LET cls == ClassOf(IsKickNote(note))
           ev == [note |-> note, velocity |-> velocity, timestamp |-> now,
                  id |-> IF observe THEN offered[cls] + 1 ELSE 0]
       IN /\ observe => offersLeft[cls] > 0
          /\ offersLeft' = IF observe THEN [offersLeft EXCEPT ![cls] = @ - 1]
                                      ELSE offersLeft
          /\ offered' = IF observe THEN [offered EXCEPT ![cls] = @ + 1] ELSE offered
          /\ IF full(QueueOf(cls), MaxsizeOf(cls))
               THEN \* asyncio.QueueFull: go on to drop the oldest
                    /\ cb' = [pc |-> "evict", ev |-> ev]
                    /\ UNCHANGED << kick_queue, midi_queue, sincePoll >>
               ELSE /\ SetQueue(cls, q_put(QueueOf(cls), ev))
                    /\ NoteQueued(cls, ev)
                    /\ UNCHANGED cb
    /\ UNCHANGED << removed, observe, overtaken, handler, signal, mapper, call, ticksLeft, running, original_color, original_brightness, active_led_task,
                    active_kick_task, loop, tasks, led, now, faultsLeft, dropped,
                    evictions, taken >>

\* lines 159-160 / 174-175: get_nowait() to remove the oldest
midi_callback_evict ==
    /\ cb.pc = "evict"
    /\ LET cls == ClassOf(IsKickNote(cb.ev.note))
           q == QueueOf(cls)
       IN IF empty(q)
            THEN \* asyncio.QueueEmpty, caught at line 163 / 178: the event is lost
                 /\ cb' = CbIdle
                 /\ dropped' = Record(dropped, cb.ev)
                 /\ UNCHANGED << kick_queue, midi_queue, evictions, removed >>
            ELSE /\ SetQueue(cls, q_rest(q))
                 /\ NoteRemoved(cls)
                 /\ evictions' = Record(evictions,
                        [victim |-> q_item(q), by |-> cb.ev, cls |-> cls,
                         qsize |-> Len(q), oldest |-> q_item(q) = Head(q)])
                 /\ cb' = [cb EXCEPT !.pc = "reput"]
                 /\ UNCHANGED dropped
    /\ UNCHANGED << observe, overtaken, handler, heard, signal, mapper, call, ticksLeft, running, original_color, original_brightness,
                    active_led_task, active_kick_task, loop, tasks, led, now,
                    offersLeft, faultsLeft, offered, taken, sincePoll >>

\* lines 161 / 176: put_nowait() of the new event after the eviction
midi_callback_reput ==
    /\ cb.pc = "reput"
    /\ LET cls == ClassOf(IsKickNote(cb.ev.note))
           q == QueueOf(cls)
       IN IF full(q, MaxsizeOf(cls))
            THEN \* asyncio.QueueFull, caught at line 163 / 178
                 /\ dropped' = Record(dropped, cb.ev)
                 /\ UNCHANGED << kick_queue, midi_queue, sincePoll >>
            ELSE /\ SetQueue(cls, q_put(q, cb.ev))
                 /\ NoteQueued(cls, cb.ev)
                 /\ UNCHANGED dropped
    /\ cb' = CbIdle
    /\ UNCHANGED << removed, observe, overtaken, handler, heard, signal, mapper, call, ticksLeft, running, original_color, original_brightness, active_led_task,
                    active_kick_task, loop, tasks, led, now, offersLeft, faultsLeft,
                    offered, evictions, taken >>

-----------------------------------------------------------------------------
(* MIDIHandler._listen_loop and _process_midi_message, on the listener thread *)

\* what mido delivers: note_on with a velocity of 0 stands for a note_off
MessageTypes == {"note_on", "note_off", "control_change"}
MessageVelocities == {0, 100}
Messages == [type : MessageTypes, note : Notes, velocity : MessageVelocities]

\* a test that takes every note_on for a hit
IsHit_every_note_on(msg) == msg.type = "note_on"
\* line 101: msg.type == 'note_on' and msg.velocity > 0
IsHit(msg) == msg.type = "note_on" /\ msg.velocity > 0

\* lines 93-119: one message of the loop at lines 127-130
process_midi_message(msg) ==
    /\ Listening
    /\ cb.pc = "idle"
    /\ IF IsHit(msg)
         THEN \/ \* line 106: the callback runs
                 /\ midi_callback(msg.note, msg.velocity)
                 /\ Heard("hits")
              \/ \* lines 107-108: the callback raises before it queues anything,
                 \* the error is logged and the loop goes on
                 /\ faultsLeft > 0
                 /\ faultsLeft' = faultsLeft - 1
                 /\ heard' = [heard EXCEPT !.hits = @ + 1, !.raised = @ + 1]
                 /\ UNCHANGED << removed, observe, overtaken, handler, signal, mapper, call,
                                 ticksLeft, kick_queue, midi_queue, running,
                                 original_color, original_brightness, active_led_task,
                                 active_kick_task, loop, cb, tasks, led, now,
                                 offersLeft, offered, dropped, evictions, taken,
                                 sincePoll >>
         ELSE \* lines 109-119: a note off or another message, logged only
              /\ heard.quiet < MaxQuiet
              /\ Heard("quiet")
              /\ UNCHANGED << removed, observe, overtaken, handler, signal, mapper, call,
                              ticksLeft, kick_queue, midi_queue, running,
                              original_color, original_brightness, active_led_task,
                              active_kick_task, loop, cb, tasks, led, now, offersLeft,
                              faultsLeft, offered, dropped, evictions, taken,
                              sincePoll >>

\* lines 126-133: iterating the port raises (the device is gone); the error is
\* logged and the thread ends, MIDIHandler.running stays set and nobody is told
listen_error ==
    /\ Listening
    /\ cb.pc = "idle"
    /\ handler' = [handler EXCEPT !.thread = "ended"]
    /\ UNCHANGED << removed, observe, overtaken, heard, signal, mapper, call, ticksLeft,
                    kick_queue, midi_queue, running, original_color,
                    original_brightness, active_led_task, active_kick_task, loop, cb,
                    tasks, led, now, offersLeft, faultsLeft, offered, dropped,
                    evictions, taken, sincePoll >>

-----------------------------------------------------------------------------
(* asyncio tasks *)

\* asyncio.create_task(self.process_midi_event(note, velocity, is_kick))
\* behind: the tasks whose wake-up the event loop has scheduled already, which
\* run before the new task does
NewProcessTask(ev, is_kick) ==
    [kind |-> "process", pc |-> "start", ev |-> ev, is_kick |-> is_kick,
     color |-> get_color(ev.note), brightness |-> get_brightness(ev.velocity),
     cancel |-> FALSE, outcome |-> "pending", awaiting |-> 0, parent |-> 0,
     calls |-> << >>, callsAtCancel |-> 0, faulted |-> FALSE, preempts |-> {},
     kick_waiting |-> ~is_kick /\ ~empty(kick_queue),
     behind |-> {w \in DOMAIN tasks : /\ tasks[w].pc = "await_cancel"
                                      /\ tasks[tasks[w].awaiting].pc = "done"}]

\* asyncio.create_task(fade_back()), created by process task p
NewFadeTask(p) ==
    [kind |-> "fade", pc |-> "start", ev |-> tasks[p].ev, is_kick |-> tasks[p].is_kick,
     color |-> tasks[p].color, brightness |-> tasks[p].brightness,
     cancel |-> FALSE, outcome |-> "pending", awaiting |-> 0, parent |-> p,
     calls |-> << >>, callsAtCancel |-> 0, faulted |-> FALSE, preempts |-> {},
     kick_waiting |-> FALSE, behind |-> {}]

-----------------------------------------------------------------------------
(* MIDISync.run, the scheduling loop *)

\* lines 317-323: setup_led stores the baseline, then run starts the listener
run_setup ==
    /\ loop.pc = "setup"
    /\ original_brightness' = DefaultBrightness
    /\ original_color' = WHITE
    /\ led' = [color |-> WHITE, brightness |-> DefaultBrightness, connected |-> TRUE]
    /\ handler' = start_listening(open_input(handler))
    /\ running' = TRUE
    /\ loop' = [pc |-> "drain", kick_processed |-> FALSE]
    /\ UNCHANGED << removed, observe, overtaken, heard, signal, mapper, call, kick_queue, midi_queue, active_led_task, active_kick_task, cb,
                    tasks, now, offersLeft, faultsLeft, ticksLeft, offered, dropped,
                    evictions, taken, sincePoll >>

\* a staleness check that also discards an event exactly max_event_age old
stale_at_threshold(age) == age >= max_event_age

\* lines 354 and 379: if age > self.max_event_age
stale(age) == age > max_event_age

\* a dispatch that awaits process_midi_event: the flash is over when it returns
Dispatch_awaits(ev, is_kick) ==
    LET age == now - ev.timestamp
    IN /\ taken' = Record(taken, [ev |-> ev, age |-> age])
       /\ tasks' = IF stale(age) \/ ~observe
                     THEN tasks
                     ELSE Append(tasks, [NewProcessTask(ev, is_kick) EXCEPT
                                            !.pc = "in_set_brightness",
                                            !.calls = << "set_color", "set_brightness" >>])

\* lines 349-362 and 376-386: the staleness check and the dispatch of one event
Dispatch(ev, is_kick) ==
    LET age == now - ev.timestamp
    IN /\ taken' = Record(taken, [ev |-> ev, age |-> age])
       /\ tasks' = IF stale(age) \/ ~observe
                     THEN tasks
                     ELSE Append(tasks, NewProcessTask(ev, is_kick))

\* a drain that leaves the inner loop after the first kick it dequeued and goes on
\* to the take without having seen the queue empty
run_drain_once ==
    /\ loop.pc = "drain"
    /\ sincePoll' = {}
    /\ IF empty(kick_queue)
         THEN /\ loop' = [pc |-> "take", kick_processed |-> FALSE]
              /\ UNCHANGED << kick_queue, taken, tasks, removed >>
         ELSE /\ kick_queue' = q_rest(kick_queue)
              /\ NoteRemoved("kick")
              /\ Dispatch(q_item(kick_queue), TRUE)
              /\ loop' = [pc |-> "take", kick_processed |-> FALSE]
    /\ UNCHANGED << observe, overtaken, handler, heard, signal, mapper, call, ticksLeft, midi_queue, running, original_color,
                    original_brightness, active_led_task, active_kick_task, cb, led,
                    now, offersLeft, faultsLeft, offered, dropped, evictions >>

\* a drain that a stale kick ends (break for continue at line 357)
run_drain_stops_at_stale ==
    /\ loop.pc = "drain"
    /\ sincePoll' = {}
    /\ IF empty(kick_queue)
         THEN \* asyncio.QueueEmpty: break, then continue or go on to the take
              /\ loop' = [pc |-> IF loop.kick_processed THEN "drain" ELSE "take",
                          kick_processed |-> FALSE]
              /\ UNCHANGED << kick_queue, taken, tasks, removed >>
         ELSE /\ kick_queue' = q_rest(kick_queue)
              /\ NoteRemoved("kick")
              /\ Dispatch(q_item(kick_queue), TRUE)
              /\ loop' = IF stale(now - q_item(kick_queue).timestamp)
                           THEN [pc |-> IF loop.kick_processed THEN "drain" ELSE "take",
                                 kick_processed |-> FALSE]
                           ELSE [loop EXCEPT !.kick_processed = TRUE]
    /\ UNCHANGED << observe, overtaken, handler, heard, signal, mapper, call, ticksLeft, midi_queue, running, original_color,
                    original_brightness, active_led_task, active_kick_task, cb, led,
                    now, offersLeft, faultsLeft, offered, dropped, evictions >>

\* lines 346-367: one kick_queue.get_nowait() of the inner while True
run_drain ==
    /\ loop.pc = "drain"
    /\ sincePoll' = {}
    /\ IF empty(kick_queue)
         THEN \* asyncio.QueueEmpty: break, then continue or go on to the take
              /\ loop' = [pc |-> IF loop.kick_processed THEN "drain" ELSE "take",
                          kick_processed |-> FALSE]
              /\ UNCHANGED << kick_queue, taken, tasks, removed >>
         ELSE /\ kick_queue' = q_rest(kick_queue)
              /\ NoteRemoved("kick")
              /\ Dispatch(q_item(kick_queue), TRUE)
              /\ loop' = [loop EXCEPT !.kick_processed =
                            @ \/ ~stale(now - q_item(kick_queue).timestamp)]
    /\ UNCHANGED << observe, overtaken, handler, heard, signal, mapper, call, ticksLeft, midi_queue, running, original_color,
                    original_brightness, active_led_task, active_kick_task, cb, led,
                    now, offersLeft, faultsLeft, offered, dropped, evictions >>

\* lines 372-386: wait_for(midi_queue.get()) finds an event without waiting
TakeEvent ==
    /\ midi_queue' = q_rest(midi_queue)
    /\ NoteRemoved("midi")
    /\ Dispatch(q_item(midi_queue), FALSE)
    /\ loop' = [pc |-> "drain", kick_processed |-> FALSE]
    /\ UNCHANGED << observe, overtaken, handler, heard, signal, mapper, call, ticksLeft, kick_queue, running, original_color, original_brightness,
                    active_led_task, active_kick_task, cb, led, now, offersLeft,
                    faultsLeft, offered, dropped, evictions, sincePoll >>

\* line 372: midi_queue.get() starts; on an empty queue it waits for a put
run_take ==
    /\ loop.pc = "take"
    /\ IF empty(midi_queue)
         THEN /\ loop' = [loop EXCEPT !.pc = "wait"]
              /\ UNCHANGED << removed, observe, overtaken, handler, heard, signal, mapper, call, ticksLeft, kick_queue, midi_queue, running, original_color,
                              original_brightness, active_led_task, active_kick_task,
                              cb, tasks, led, now, offersLeft, faultsLeft, offered,
                              dropped, evictions, taken, sincePoll >>
         ELSE TakeEvent

\* line 372: the waiting get() is woken by a put_nowait
run_take_wake ==
    /\ loop.pc = "wait"
    /\ ~empty(midi_queue)
    /\ TakeEvent

\* a timeout that goes back to the wait on midi_queue, past the kick drain
run_take_timeout_waits_again ==
    /\ loop.pc = "wait"
    /\ loop' = [pc |-> "take", kick_processed |-> FALSE]
    /\ UNCHANGED << removed, observe, overtaken, handler, heard, signal, mapper, call, ticksLeft, kick_queue, midi_queue, running, original_color,
                    original_brightness, active_led_task, active_kick_task, cb, tasks,
                    led, now, offersLeft, faultsLeft, offered, dropped, evictions,
                    taken, sincePoll >>

\* lines 387-389: asyncio.TimeoutError after 0.01 s
run_take_timeout ==
    /\ loop.pc = "wait"
    /\ loop' = [pc |-> "drain", kick_processed |-> FALSE]
    /\ UNCHANGED << removed, observe, overtaken, handler, heard, signal, mapper, call, ticksLeft, kick_queue, midi_queue, running, original_color,
                    original_brightness, active_led_task, active_kick_task, cb, tasks,
                    led, now, offersLeft, faultsLeft, offered, dropped, evictions,
                    taken, sincePoll >>

-----------------------------------------------------------------------------
(* LEDController, as MIDISync uses it: the device keeps the last value sent; *)
(* send_command writes nothing once the client is disconnected              *)

\* LEDController.set_color
set_color(color) ==
    led' = IF led.connected THEN [led EXCEPT !.color = color] ELSE led

\* a clamp that forgets the lower end
clamp_above(brightness) == Min(100, brightness)

\* neon.py line 100: brightness = max(0, min(100, brightness))
clamp(brightness) == Max(0, Min(100, brightness))

\* neon.py lines 101-102: bytes([0x7B, 0xFF, 0x01, adjusted, brightness, 0x00,
\* 0xFF, 0xFF, 0xBF]) with adjusted = (brightness * 32) // 100
brightness_command(brightness) ==
    << 123, 255, 1, (clamp(brightness) * 32) \div 100, clamp(brightness),
       0, 255, 255, 191 >>

\* neon.py line 93: bytes([0x7B, 0xFF, 0x07, r, g, b, 0x00, 0xFF, 0xBF])
color_command(color) == << 123, 255, 7, color[1], color[2], color[3], 0, 255, 191 >>

\* nothing was written
NotSent == << >>

\* LEDController.send_command, neon.py lines 68-79: the bytes that reach the
\* device, none without a connected client
send_command(command_bytes) == IF led.connected THEN command_bytes ELSE NotSent

\* LEDController.set_brightness, neon.py lines 98-105: the device takes the
\* brightness from the fifth byte of the command
set_brightness(brightness) ==
    led' = IF send_command(brightness_command(brightness)) # NotSent
             THEN [led EXCEPT !.brightness = brightness_command(brightness)[5]]
             ELSE led

\* an actuator call may raise while the environment still has faults to inject
Faults == IF faultsLeft > 0 THEN {FALSE, TRUE} ELSE {FALSE}

-----------------------------------------------------------------------------
(* Errors in the loop, the shutdown signal and MIDISync.cleanup *)

\* the positions of the while self.running loop
Cycle == {"drain", "take", "wait"}

\* an error handler placed outside the while loop: the error ends the loop
run_error_ends_loop ==
    /\ loop.pc \in Cycle
    /\ faultsLeft > 0
    /\ faultsLeft' = faultsLeft - 1
    /\ running' = FALSE
    /\ loop' = [pc |-> "stopped", kick_processed |-> FALSE]
    /\ UNCHANGED << removed, observe, overtaken, handler, heard, signal, mapper, call, ticksLeft, kick_queue,
                    midi_queue, original_color, original_brightness, active_led_task,
                    active_kick_task, cb, tasks, led, now, offersLeft, offered,
                    dropped, evictions, taken, sincePoll >>

\* lines 343-392: an Exception raised in the body of the loop, after the event
\* at hand (if there is one) was dequeued and before it is dispatched; caught at
\* line 391, and the while loop goes on with its next iteration
run_error ==
    /\ loop.pc \in Cycle
    /\ faultsLeft > 0
    /\ faultsLeft' = faultsLeft - 1
    /\ LET q == IF loop.pc = "drain" THEN kick_queue ELSE midi_queue
           cls == IF loop.pc = "drain" THEN "kick" ELSE "midi"
       IN IF empty(q)
            THEN UNCHANGED << kick_queue, midi_queue, taken, removed >>
            ELSE /\ SetQueue(cls, q_rest(q))
                 /\ NoteRemoved(cls)
                 /\ taken' = Record(taken, [ev |-> q_item(q),
                                            age |-> now - q_item(q).timestamp])
    /\ sincePoll' = IF loop.pc = "drain" THEN {} ELSE sincePoll
    /\ loop' = [pc |-> "drain", kick_processed |-> FALSE]
    /\ UNCHANGED << observe, overtaken, handler, heard, signal, mapper, call, ticksLeft, running, original_color,
                    original_brightness, active_led_task, active_kick_task, cb, tasks,
                    led, now, offersLeft, offered, dropped, evictions >>

\* Ctrl+C while the program runs: asyncio.run cancels the main task
Interrupt ==
    /\ running
    /\ ~signal
    /\ signal' = TRUE
    /\ UNCHANGED << removed, observe, overtaken, handler, heard, mapper, call, ticksLeft, kick_queue, midi_queue,
                    running, original_color, original_brightness, active_led_task,
                    active_kick_task, loop, cb, tasks, led, now, offersLeft,
                    faultsLeft, offered, dropped, evictions, taken, sincePoll >>

\* asyncio.runners._cancel_all_tasks: every task that is not done gets a
\* CancelledError at its suspension point, which neither process_midi_event nor
\* fade_back catches
cancel_all_tasks(ts) ==
    [t \in DOMAIN ts |->
        IF ts[t].pc = "done" THEN ts[t]
        ELSE [ts[t] EXCEPT !.pc = "done", !.outcome = "cancelled"]]

\* lines 372, 396-397 and 401-410: the cancellation reaches run in its await, the
\* finally clause calls cleanup, which clears running, stops the listener and
\* awaits set_brightness(self.original_brightness). From Python 3.11 on,
\* asyncio.run answers SIGINT by cancelling the main task alone, and the other
\* tasks run on during the awaits of cleanup; before 3.11 the KeyboardInterrupt
\* leaves run_until_complete and asyncio.run cancels every task at once
run_shutdown ==
    /\ signal
    /\ loop.pc \in {"take", "wait"}
    /\ running' = FALSE
    /\ \E joined \in BOOLEAN, left \in 0..1 :
          handler' = disconnect(stop_listening(handler, joined), joined, left)
    /\ \E main_task_alone \in BOOLEAN :
          tasks' = IF main_task_alone THEN tasks ELSE cancel_all_tasks(tasks)
    /\ overtaken' = {x \in overtaken : tasks'[x[1]].pc = "start"}
    /\ set_brightness(original_brightness)
    /\ loop' = [pc |-> "cleanup_color", kick_processed |-> FALSE]
    /\ UNCHANGED << removed, observe, heard, signal, mapper, call, ticksLeft, kick_queue,
                    midi_queue, original_color, original_brightness, active_led_task,
                    active_kick_task, cb, now, offersLeft, faultsLeft, offered,
                    dropped, evictions, taken, sincePoll >>

\* lines 411-412: await set_color(*self.original_color)
cleanup_set_color ==
    /\ loop.pc = "cleanup_color"
    /\ set_color(original_color)
    /\ loop' = [loop EXCEPT !.pc = "cleanup_disconnect"]
    /\ UNCHANGED << removed, observe, overtaken, handler, heard, signal, mapper, call, ticksLeft, kick_queue,
                    midi_queue, running, original_color, original_brightness,
                    active_led_task, active_kick_task, cb, tasks, now, offersLeft,
                    faultsLeft, offered, dropped, evictions, taken, sincePoll >>

\* lines 416-418 and 399: await self.led_controller.disconnect(); run returns
cleanup_disconnect ==
    /\ loop.pc = "cleanup_disconnect"
    /\ led' = [led EXCEPT !.connected = FALSE]
    /\ loop' = [loop EXCEPT !.pc = "stopped"]
    /\ UNCHANGED << removed, observe, overtaken, handler, heard, signal, mapper, call, ticksLeft, kick_queue,
                    midi_queue, running, original_color, original_brightness,
                    active_led_task, active_kick_task, cb, tasks, now, offersLeft,
                    faultsLeft, offered, dropped, evictions, taken, sincePoll >>

Shutdown == run_shutdown \/ cleanup_set_color \/ cleanup_disconnect

-----------------------------------------------------------------------------
(* MIDISync._flash_led, run by a process_midi_event task, and fade_back *)

\* tasks run while run is suspended in asyncio.wait_for
LoopSuspended == loop.pc \in {"take", "wait", "cleanup_color", "cleanup_disconnect"}

ProcessIds == {t \in DOMAIN tasks : tasks[t].kind = "process"}
FadeIds == {t \in DOMAIN tasks : tasks[t].kind = "fade"}
\* Task.done()
done(t) == tasks[t].pc = "done"
\* one handle for both classes
ActiveTask_single(is_kick) == active_led_task
\* lines 247-262: the handle _flash_led looks at, by the class of the animation
ActiveTask(is_kick) == IF is_kick THEN active_kick_task ELSE active_led_task
\* the fade_back tasks created by process task p
FadesOf(p) == {f \in FadeIds : tasks[f].parent = p}
\* fade-back actuator calls issued so far for the animation of process task p
FadeCalls(p) == IF FadesOf(p) = {} THEN 0
                ELSE Len(tasks[CHOOSE f \in FadesOf(p) : TRUE].calls)
\* the animation of p is Flashing or FadingBack
Animating(p) ==
    \/ tasks[p].pc \in {"in_set_color", "in_set_brightness"}
    \/ \E f \in FadesOf(p) : ~done(f)

\* the same-class animations that are Flashing or FadingBack when t starts, each
\* with the number of fade-back calls it has issued by then
Preempted(t) ==
    {<< p, FadeCalls(p) >> : p \in {q \in ProcessIds \ {t} :
        tasks[q].is_kick = tasks[t].is_kick /\ Animating(q)}}

\* an error handler that still schedules the fade-back (create_task in a finally)
FlashFailedStillFades(ts, t) ==
    Append([ts EXCEPT ![t].pc = "done", ![t].outcome = "error", ![t].faulted = TRUE],
           NewFadeTask(t))

\* lines 283-284: except Exception: the error is logged and _flash_led returns
FlashFailed(ts, t) ==
    [ts EXCEPT ![t].pc = "done", ![t].outcome = "error", ![t].faulted = TRUE]

\* a flash that sets the brightness where it should set the color
FlashSetColor_brightness_first(t, ts, fault) ==
    IF fault
      THEN /\ tasks' = FlashFailed(ts, t)
           /\ faultsLeft' = faultsLeft - 1
           /\ UNCHANGED led
      ELSE /\ tasks' = [ts EXCEPT ![t].pc = "in_set_color",
                                  ![t].calls = Append(@, "set_brightness")]
           /\ set_brightness(tasks[t].brightness)
           /\ UNCHANGED faultsLeft

\* lines 264-265: await self.led_controller.set_color(*color)
FlashSetColor(t, ts, fault) ==
    IF fault
      THEN \* caught at line 283
           /\ tasks' = FlashFailed(ts, t)
           /\ faultsLeft' = faultsLeft - 1
           /\ UNCHANGED led
      ELSE /\ tasks' = [ts EXCEPT ![t].pc = "in_set_color",
                                  ![t].calls = Append(@, "set_color")]
           /\ set_color(tasks[t].color)
           /\ UNCHANGED faultsLeft

\* Task.cancel() on the class's handle h
RequestCancel(ts, h) ==
    [ts EXCEPT ![h].cancel = TRUE, ![h].callsAtCancel = Len(ts[h].calls)]

\* asyncio.create_task schedules the first step of a task with call_soon, and the
\* event loop runs what call_soon scheduled in that order. While task p has yet to
\* take its first step, a task created after p takes no step, and a task created
\* before p takes one step at most: the one that was scheduled before p was
\* created. overtaken holds the pairs << p, u >> where u may not run before p
MayStep(u) ==
    \A p \in DOMAIN tasks \ {u} :
        tasks[p].pc = "start" => (u < p /\ << p, u >> \notin overtaken)

\* the tasks that have yet to take their first step
Starting == {p \in DOMAIN tasks : tasks[p].pc = "start"}

\* the task that the first step of process task u cancels (line 249), if any
Cancels(u) ==
    LET h == ActiveTask(tasks[u].is_kick)
    IN IF u \in ProcessIds \cap Starting /\ h # 0 /\ ~done(h) THEN {h} ELSE {}

\* task u takes a step. Task.cancel schedules the step in which the cancelled task
\* ends behind the first steps that are scheduled already
Stepped(u) ==
    overtaken' =
        {x \in overtaken \cup (Starting \X {u}) \cup (Starting \X Cancels(u)) :
            x[1] # u /\ x[1] # x[2]}

\* lines 245-265: the first step of _flash_led
flash_led_begin(t) ==
    /\ LoopSuspended
    /\ tasks[t].kind = "process"
    /\ tasks[t].pc = "start"
    /\ \A w \in tasks[t].behind : tasks[w].pc # "await_cancel"
    /\ LET h == ActiveTask(tasks[t].is_kick)
           ts == [tasks EXCEPT ![t].preempts = Preempted(t)]
       IN IF h # 0 /\ ~done(h)
            THEN \* cancel the previous task and await it
                 /\ tasks' = [RequestCancel(ts, h) EXCEPT ![t].pc = "await_cancel",
                                                         ![t].awaiting = h]
                 /\ UNCHANGED << led, faultsLeft >>
            ELSE \E fault \in Faults : FlashSetColor(t, ts, fault)
    /\ UNCHANGED << removed, observe, handler, heard, signal, mapper, call, ticksLeft, kick_queue, midi_queue, running, original_color,
                    original_brightness, active_led_task, active_kick_task, loop, cb,
                    now, offersLeft, offered, dropped, evictions, taken, sincePoll >>

\* a task that is done wakes the tasks that await it in the order in which they
\* began to wait (Future schedules its done callbacks in the order they were added)
FirstWaiter(t) ==
    \A u \in ProcessIds :
        (u < t /\ tasks[u].pc = "await_cancel") => tasks[u].awaiting # tasks[t].awaiting

\* lines 251-265: the awaited task is done
flash_led_resume(t) ==
    /\ LoopSuspended
    /\ tasks[t].kind = "process"
    /\ tasks[t].pc = "await_cancel"
    /\ done(tasks[t].awaiting)
    /\ FirstWaiter(t)
    /\ IF tasks[tasks[t].awaiting].outcome = "error"
         THEN \* the awaited task's exception, caught at line 283
              /\ tasks' = [tasks EXCEPT ![t].pc = "done", ![t].outcome = "error"]
              /\ UNCHANGED << led, faultsLeft >>
         ELSE \E fault \in Faults : FlashSetColor(t, tasks, fault)
    /\ UNCHANGED << removed, observe, handler, heard, signal, mapper, call, ticksLeft, kick_queue, midi_queue, running, original_color,
                    original_brightness, active_led_task, active_kick_task, loop, cb,
                    now, offersLeft, offered, dropped, evictions, taken, sincePoll >>

\* line 266: await self.led_controller.set_brightness(brightness)
flash_led_set_brightness(t) ==
    /\ LoopSuspended
    /\ tasks[t].kind = "process"
    /\ tasks[t].pc = "in_set_color"
    /\ \E fault \in Faults :
         IF fault
           THEN /\ tasks' = FlashFailed(tasks, t)
                /\ faultsLeft' = faultsLeft - 1
                /\ UNCHANGED led
           ELSE /\ tasks' = [tasks EXCEPT ![t].pc = "in_set_brightness",
                                          ![t].calls = Append(@, "set_brightness")]
                /\ set_brightness(tasks[t].brightness)
                /\ UNCHANGED faultsLeft
    /\ UNCHANGED << removed, observe, handler, heard, signal, mapper, call, ticksLeft, kick_queue, midi_queue, running, original_color,
                    original_brightness, active_led_task, active_kick_task, loop, cb,
                    now, offersLeft, offered, dropped, evictions, taken, sincePoll >>

\* a flash that takes the color it has set as the color to fade back to
flash_led_create_fade_rebases(t) ==
    /\ LoopSuspended
    /\ tasks[t].kind = "process"
    /\ tasks[t].pc = "in_set_brightness"
    /\ tasks' = Append([tasks EXCEPT ![t].pc = "done", ![t].outcome = "ok"],
                       NewFadeTask(t))
    /\ active_kick_task' = IF tasks[t].is_kick THEN Len(tasks) + 1
                           ELSE active_kick_task
    /\ active_led_task' = IF tasks[t].is_kick THEN active_led_task
                          ELSE Len(tasks) + 1
    /\ original_color' = tasks[t].color
    /\ UNCHANGED << removed, observe, handler, heard, signal, mapper, call, ticksLeft, kick_queue, midi_queue, running,
                    original_brightness, loop, cb, led, now, offersLeft, faultsLeft,
                    offered, dropped, evictions, taken, sincePoll >>

\* lines 277-281: create_task(fade_back()) and store it in the class's handle
flash_led_create_fade(t) ==
    /\ LoopSuspended
    /\ tasks[t].kind = "process"
    /\ tasks[t].pc = "in_set_brightness"
    /\ tasks' = Append([tasks EXCEPT ![t].pc = "done", ![t].outcome = "ok"],
                       NewFadeTask(t))
    /\ active_kick_task' = IF tasks[t].is_kick THEN Len(tasks) + 1
                           ELSE active_kick_task
    /\ active_led_task' = IF tasks[t].is_kick THEN active_led_task
                          ELSE Len(tasks) + 1
    /\ UNCHANGED << removed, observe, handler, heard, signal, mapper, call, ticksLeft, kick_queue, midi_queue, running, original_color,
                    original_brightness, loop, cb, led, now, offersLeft, faultsLeft,
                    offered, dropped, evictions, taken, sincePoll >>

\* a fade_back that swallows the CancelledError and carries on
FadeStepsAfterCancel(f) ==
    /\ LoopSuspended
    /\ tasks[f].kind = "fade"

\* a fade_back task may take its next step: no CancelledError is pending
FadeMayStep(f) ==
    /\ LoopSuspended
    /\ tasks[f].kind = "fade"
    /\ ~tasks[f].cancel

\* fade_back's first step, up to asyncio.sleep(self.flash_duration)
fade_back_begin(f) ==
    /\ FadeMayStep(f)
    /\ tasks[f].pc = "start"
    /\ tasks' = [tasks EXCEPT ![f].pc = "sleep"]
    /\ UNCHANGED << removed, observe, handler, heard, signal, mapper, call, ticksLeft, kick_queue, midi_queue, running, original_color,
                    original_brightness, active_led_task, active_kick_task, loop, cb,
                    led, now, offersLeft, faultsLeft, offered, dropped, evictions,
                    taken, sincePoll >>

\* max(20, int(brightness * 0.3))
fade_brightness(brightness) == Max(20, (brightness * 3) \div 10)

\* lines 271-272: the sleep is over, set_brightness(fade_brightness)
fade_back_set_brightness(f) ==
    /\ FadeMayStep(f)
    /\ tasks[f].pc = "sleep"
    /\ \E fault \in Faults :
         IF fault
           THEN /\ tasks' = [tasks EXCEPT ![f].pc = "done", ![f].outcome = "error",
                                          ![f].faulted = TRUE]
                /\ faultsLeft' = faultsLeft - 1
                /\ UNCHANGED led
           ELSE /\ tasks' = [tasks EXCEPT ![f].pc = "in_set_brightness",
                                          ![f].calls = Append(@, "set_brightness")]
                /\ set_brightness(fade_brightness(tasks[f].brightness))
                /\ UNCHANGED faultsLeft
    /\ UNCHANGED << removed, observe, handler, heard, signal, mapper, call, ticksLeft, kick_queue, midi_queue, running, original_color,
                    original_brightness, active_led_task, active_kick_task, loop, cb,
                    now, offersLeft, offered, dropped, evictions, taken, sincePoll >>

\* lines 274-275: set_color(*self.original_color) when there is a baseline
fade_back_set_color(f) ==
    /\ FadeMayStep(f)
    /\ tasks[f].pc = "in_set_brightness"
    /\ \E fault \in Faults :
         IF original_color = NoColor
           THEN /\ fault = FALSE
                /\ tasks' = [tasks EXCEPT ![f].pc = "done", ![f].outcome = "ok"]
                /\ UNCHANGED << led, faultsLeft >>
           ELSE IF fault
             THEN /\ tasks' = [tasks EXCEPT ![f].pc = "done", ![f].outcome = "error",
                                            ![f].faulted = TRUE]
                  /\ faultsLeft' = faultsLeft - 1
                  /\ UNCHANGED led
             ELSE /\ tasks' = [tasks EXCEPT ![f].pc = "in_set_color",
                                            ![f].calls = Append(@, "set_color")]
                  /\ set_color(original_color)
                  /\ UNCHANGED faultsLeft
    /\ UNCHANGED << removed, observe, handler, heard, signal, mapper, call, ticksLeft, kick_queue, midi_queue, running, original_color,
                    original_brightness, active_led_task, active_kick_task, loop, cb,
                    now, offersLeft, offered, dropped, evictions, taken, sincePoll >>

\* fade_back returns
fade_back_end(f) ==
    /\ FadeMayStep(f)
    /\ tasks[f].pc = "in_set_color"
    /\ tasks' = [tasks EXCEPT ![f].pc = "done", ![f].outcome = "ok"]
    /\ UNCHANGED << removed, observe, handler, heard, signal, mapper, call, ticksLeft, kick_queue, midi_queue, running, original_color,
                    original_brightness, active_led_task, active_kick_task, loop, cb,
                    led, now, offersLeft, faultsLeft, offered, dropped, evictions,
                    taken, sincePoll >>

\* the next step of a task whose cancel() was requested raises CancelledError
\* at its suspension point (or before its first line): fade_back catches nothing
fade_back_cancelled(f) ==
    /\ LoopSuspended
    /\ tasks[f].kind = "fade"
    /\ tasks[f].cancel
    /\ ~done(f)
    /\ tasks' = [tasks EXCEPT ![f].pc = "done", ![f].outcome = "cancelled"]
    /\ UNCHANGED << removed, observe, handler, heard, signal, mapper, call, ticksLeft, kick_queue, midi_queue, running, original_color,
                    original_brightness, active_led_task, active_kick_task, loop, cb,
                    led, now, offersLeft, faultsLeft, offered, dropped, evictions,
                    taken, sincePoll >>

-----------------------------------------------------------------------------
(* the clock *)

Tick ==
    /\ ticksLeft > 0
    /\ ticksLeft' = ticksLeft - 1
    /\ now' = now + 1
    /\ UNCHANGED << removed, observe, overtaken, handler, heard, signal, mapper, call, kick_queue, midi_queue, running, original_color,
                    original_brightness, active_led_task, active_kick_task, loop, cb,
                    tasks, led, offersLeft, faultsLeft, offered, dropped, evictions,
                    taken, sincePoll >>

-----------------------------------------------------------------------------
(* MIDISync.setup_midi and MIDIHandler.connect: the choice of the input port *)

\* a port name is the sequence of its lower-cased words; None is << >>
NoPort == << >>
Failed == << "failed" >>
PortNames == {<< "td17" >>, << "iac", "bus" >>, << "garageband", "virtual" >>,
              << "virtual", "a" >>, << "virtual", "b" >>}
MissingPort == << "unplugged" >>
\* what the user types at the prompt of line 117
Choices == {"", "0", "1", "2", "3", "x"}

\* word in port.lower()
contains(port, word) == \E i \in DOMAIN port : port[i] = word
\* line 100: any(virtual in port_lower for virtual in [...])
is_virtual(port) == \E word \in {"virtual", "iac", "garageband"} : contains(port, word)
\* line 107: "garageband" in port.lower() or "iac" in port.lower()
has_marker(port) == contains(port, "garageband") \/ contains(port, "iac")

\* the lists mido.get_input_names() may return: no name twice
PortLists ==
    {ports \in UNION {[1..n -> PortNames] : n \in 0..MaxPorts} :
        \A i, j \in DOMAIN ports : ports[i] = ports[j] => i = j}

is_hardware(port) == ~is_virtual(port)
\* the names that pass the test of line 100, and those that pass the test of line 107
Hardware == {port \in PortNames : is_hardware(port)}
Marked == {port \in PortNames : has_marker(port)}

\* for port in ports: if <test>: selected_port = port; break
first_port(ports, passing) ==
    IF \E i \in DOMAIN ports : ports[i] \in passing
      THEN ports[CHOOSE i \in DOMAIN ports :
                    ports[i] \in passing /\ \A j \in 1..(i - 1) : ports[j] \notin passing]
      ELSE NoPort

\* int(choice): the digits the model types, ValueError (-1 here) for the rest
int_of(choice) ==
    CASE choice = "0" -> 0 [] choice = "1" -> 1 [] choice = "2" -> 2
      [] choice = "3" -> 3 [] OTHER -> 0 - 1

\* lines 116-128: no port was found by name; one port is taken, several are
\* offered at a prompt
prompt(ports, choice) ==
    IF Len(ports) = 1 THEN ports[1]
    ELSE IF choice = "" THEN ports[1]
    ELSE IF choice = "x" THEN Failed
    ELSE IF int_of(choice) - 1 >= 0 /\ int_of(choice) - 1 < Len(ports)
      THEN ports[int_of(choice)]
      ELSE Failed

\* MIDIHandler.connect, lines 41-66
connect(ports, port_name) ==
    IF ports = << >> THEN Failed
    ELSE LET name == IF port_name # NoPort THEN port_name
                     ELSE IF first_port(ports, Marked) # NoPort
                            THEN first_port(ports, Marked)
                            ELSE ports[1]
         IN IF \E i \in DOMAIN ports : ports[i] = name THEN name ELSE Failed

\* lines 94-128: the automatic selection
select_port(ports, choice) ==
    IF first_port(ports, Hardware) # NoPort THEN first_port(ports, Hardware)
    ELSE IF first_port(ports, Marked) # NoPort THEN first_port(ports, Marked)
    ELSE prompt(ports, choice)

\* MIDISync.setup_midi, lines 69-136: the port connected to, or Failed
setup_midi(ports, midi_port, choice) ==
    IF ports = << >> THEN Failed
    ELSE IF midi_port # NoPort
      THEN IF \E i \in DOMAIN ports : ports[i] = midi_port
             THEN connect(ports, midi_port)
             ELSE Failed
      ELSE IF select_port(ports, choice) = Failed THEN Failed
           ELSE connect(ports, select_port(ports, choice))

-----------------------------------------------------------------------------
(* Calls of the DrumMapper methods and of the fade formula, one at a time *)

program == << kick_queue, midi_queue, running, original_color, original_brightness,
              active_led_task, active_kick_task, loop, cb, tasks, led, now,
              offersLeft, faultsLeft, ticksLeft, offered, dropped, evictions, taken,
              sincePoll, removed, observe, overtaken, signal, handler, heard >>

Called(fn, arg, result) == call' = [fn |-> fn, arg |-> arg, result |-> result]

\* the mapper is configured first and queried then: the queries change nothing,
\* so their order and number make no difference
Configuring == call.fn \in {"none", "__init__", "set_drum_color"}

\* DrumMapper(drum_colors=..., velocity_to_brightness=...)
new_mapper(drum_colors, velocity_to_brightness) ==
    /\ call.fn = "none"
    /\ mapper' = DrumMapper(drum_colors, velocity_to_brightness)
    /\ Called("__init__", << >>, << >>)
    /\ UNCHANGED program

\* DrumMapper.set_drum_color: self.drum_colors[drum_type] = color
set_drum_color(drum_type, color) ==
    /\ Configuring
    /\ mapper' = [mapper EXCEPT !.drum_colors = dict_set(@, drum_type, color),
                                !.configured = dict_set(@, drum_type, color)]
    /\ Called("set_drum_color", << >>, << >>)
    /\ UNCHANGED program

call_get_drum_type(note) ==
    /\ Configuring
    /\ Called("get_drum_type", note, get_drum_type(note))
    /\ UNCHANGED << program, mapper >>

call_get_color(note) ==
    /\ Configuring
    /\ Called("get_color", note, get_color(note))
    /\ UNCHANGED << program, mapper >>

call_get_brightness(velocity) ==
    /\ Configuring
    /\ Called("get_brightness", velocity, get_brightness(velocity))
    /\ UNCHANGED << program, mapper >>

\* run calls setup_midi once, before anything else (lines 312-314)
call_setup_midi(ports, midi_port, choice) ==
    /\ call.fn = "none"
    /\ Called("setup_midi", [ports |-> ports, midi_port |-> midi_port,
                             choice |-> choice],
              setup_midi(ports, midi_port, choice))
    /\ UNCHANGED << program, mapper >>

\* fade_back, line 271, for a hit of the given brightness
call_fade_brightness(brightness) ==
    /\ Configuring
    /\ Called("fade_brightness", brightness, fade_brightness(brightness))
    /\ UNCHANGED << program, mapper >>

\* everything but the MIDIHandler object and the record of the last call
beside_handler == << kick_queue, midi_queue, running, original_color,
                     original_brightness, active_led_task, active_kick_task, loop, cb,
                     tasks, led, now, offersLeft, faultsLeft, ticksLeft, offered,
                     dropped, evictions, taken, sincePoll, removed, observe, overtaken,
                     signal, heard, mapper >>

\* a call of a MIDIHandler method: the object before and after it
HandlerCalled(fn, after) == Called(fn, handler, after) /\ handler' = after

\* MIDIHandler.connect, lines 30-70: it opens a port or returns False
call_connect ==
    /\ \E opened \in BOOLEAN :
          HandlerCalled("connect", IF opened THEN open_input(handler) ELSE handler)
    /\ UNCHANGED beside_handler

call_start_listening ==
    /\ HandlerCalled("start_listening", start_listening(handler))
    /\ UNCHANGED beside_handler

\* the join that times out leaves one more thread behind
call_stop_listening ==
    /\ \E joined \in BOOLEAN :
          /\ joined \/ handler.strays < MaxStrays
          /\ HandlerCalled("stop_listening", stop_listening(handler, joined))
    /\ UNCHANGED beside_handler

call_disconnect ==
    /\ \E joined \in BOOLEAN, left \in 0..MaxStrays :
          /\ joined \/ handler.strays < MaxStrays
          /\ HandlerCalled("disconnect", disconnect(handler, joined, left))
    /\ UNCHANGED beside_handler

\* everything but the LED device and the record of the last call
beside_led == << kick_queue, midi_queue, running, original_color,
                 original_brightness, active_led_task, active_kick_task, loop, cb,
                 tasks, now, offersLeft, faultsLeft, ticksLeft, offered, dropped,
                 evictions, taken, sincePoll, removed, observe, overtaken, signal,
                 handler, heard, mapper >>

\* the integers set_brightness is called with
Brightnesses == (0 - BrightnessMargin)..(100 + BrightnessMargin)

\* LEDController.connect, neon.py lines 48-58: the client is connected or not
call_led_connect ==
    /\ \E connected \in BOOLEAN :
          /\ Called("connect", led.connected, connected)
          /\ led' = [led EXCEPT !.connected = connected]
    /\ UNCHANGED beside_led

\* LEDController.disconnect, neon.py lines 60-66
call_led_disconnect ==
    /\ Called("disconnect", led.connected, FALSE)
    /\ led' = [led EXCEPT !.connected = FALSE]
    /\ UNCHANGED beside_led

\* LEDController.set_brightness with any integer, connected or not
call_set_brightness(brightness) ==
    /\ Called("set_brightness", [brightness |-> brightness, connected |-> led.connected],
              send_command(brightness_command(brightness)))
    /\ set_brightness(brightness)
    /\ UNCHANGED beside_led

\* LEDController.set_color, connected or not
call_set_color(color) ==
    /\ Called("set_color", [color |-> color, connected |-> led.connected],
              send_command(color_command(color)))
    /\ set_color(color)
    /\ UNCHANGED beside_led

\* lines 127-133: a thread that self.thread names no longer gets a message and
\* finds running cleared, or the iteration of its port ends or raises
stray_ends ==
    /\ handler.strays > 0
    /\ handler' = [handler EXCEPT !.strays = @ - 1]
    /\ UNCHANGED << beside_handler, call >>

-----------------------------------------------------------------------------
(* Specifications *)

\* MIDISync.__init__
MIDISyncInit ==
    /\ kick_queue = << >>
    /\ midi_queue = << >>
    /\ running = FALSE
    /\ original_color = NoColor
    /\ original_brightness = -1
    /\ active_led_task = 0
    /\ active_kick_task = 0
    /\ loop = [pc |-> "setup", kick_processed |-> FALSE]
    /\ cb = CbIdle
    /\ tasks = << >>
    /\ led = [color |-> NoColor, brightness |-> -1, connected |-> FALSE]
    /\ now = 0
    /\ offered = [kick |-> 0, midi |-> 0]
    /\ dropped = {}
    /\ evictions = {}
    /\ taken = {}
    /\ sincePoll = {}
    /\ removed = [kick |-> 0, midi |-> 0]
    /\ signal = FALSE
    /\ mapper = DrumMapper(<< >>, TRUE)
    /\ call = NoCall
    /\ handler = NewHandler
    /\ overtaken = {}
    /\ heard = [hits |-> 0, raised |-> 0, quiet |-> 0]

\* a run with a bounded number of hits, actuator faults and clock ticks, observed
InitWith(kicks, midis, faults, ticks) ==
    /\ MIDISyncInit
    /\ observe = TRUE
    /\ offersLeft = [kick |-> kicks, midi |-> midis]
    /\ faultsLeft = faults
    /\ ticksLeft = ticks

Hit ==
    /\ \E note \in Notes, velocity \in Velocities : midi_callback(note, velocity)
    /\ Heard("hits")

Producer ==
    \/ Hit
    \/ midi_callback_evict
    \/ midi_callback_reput

Consumer ==
    \/ run_drain
    \/ run_take
    \/ run_take_wake
    \/ run_take_timeout

\* the listener thread alone: the scheduling loop is held after its setup
InitOffer == InitWith(OfferKicks, OfferMidis, 0, MaxTime)
NextOffer == run_setup \/ Producer \/ Tick
SpecOffer == InitOffer /\ [][NextOffer]_vars

\* the listener thread against the scheduling loop; the dispatched tasks do not
\* touch the queues or the loop, and are left where create_task put them
InitQueue == InitWith(QueueKicks, QueueMidis, 0, MaxTime)
NextQueue == run_setup \/ Producer \/ Consumer \/ Tick
SpecQueue == InitQueue /\ [][NextQueue]_vars

\* the scheduling loop's order of service: too few hits to fill a queue, so the
\* callback is its first put_nowait alone; the clock runs, so kicks can be stale
InitPriority == InitWith(PrioKicks, PrioMidis, 0, MaxTime)
NextPriority == run_setup \/ Hit \/ Consumer \/ Tick
SpecPriority == InitPriority /\ [][NextPriority]_vars

Animations ==
    \E t \in DOMAIN tasks :
      /\ MayStep(t)
      /\ Stepped(t)
      /\
        \/ flash_led_begin(t)
        \/ flash_led_resume(t)
        \/ flash_led_set_brightness(t)
        \/ flash_led_create_fade(t)
        \/ fade_back_begin(t)
        \/ fade_back_set_brightness(t)
        \/ fade_back_set_color(t)
        \/ fade_back_end(t)
        \/ fade_back_cancelled(t)

\* the whole program: listener thread, scheduling loop and animation tasks
\* the queues stay below their capacity here, and the clock stands still
Init == InitWith(AnimKicks, AnimMidis, AnimFaults, 0)
Next == run_setup \/ Hit \/ Consumer \/ Animations
Spec == Init /\ [][Next]_vars

\* the whole program with a clock, for one kick and one other hit
InitStale == InitWith(StaleKicks, StaleMidis, 0, MaxTime)
NextStale == run_setup \/ Hit \/ Consumer \/ Animations \/ Tick
SpecStale == InitStale /\ [][NextStale]_vars

\* the producer and the loop with hits arriving without end; the loop keeps running
\* (the event loop schedules run after every await, and wait_for returns or times out)
InitLive ==
    /\ MIDISyncInit
    /\ observe = FALSE
    /\ offersLeft = [kick |-> 0, midi |-> 0]
    /\ faultsLeft = 0
    /\ ticksLeft = 0
NextLive == run_setup \/ Producer \/ Consumer
SpecLive == InitLive /\ [][NextLive]_vars /\ WF_vars(run_setup) /\ WF_vars(Consumer)

\* a burst of kicks: the listener thread delivers all of them before the loop
\* thread reaches its next kick_queue.get_nowait, and the loop runs from there;
\* other hits arrive at any moment and the clock runs, so a kick can be stale when
\* it is dequeued; a task carries the event it was created for, and is left where
\* create_task put it
BurstOver == offersLeft["kick"] = 0 /\ cb.pc = "idle"
AfterBurst == BurstOver /\ Consumer
InitBurst == InitWith(BurstKicks, BurstMidis, 0, MaxTime)
NextBurst == run_setup \/ Producer \/ AfterBurst \/ Tick
SpecBurst == InitBurst /\ [][NextBurst]_vars

\* a run from setup to the end of cleanup: hits, animations and Ctrl+C
InitRun == InitWith(RunKicks, RunMidis, 0, 0)
NextRun == run_setup \/ Hit \/ Consumer \/ Animations \/ Interrupt \/ Shutdown
SpecRun == InitRun /\ [][NextRun]_vars

\* three kicks, so that two of them can be dispatched while the fade-back of the
\* first is still pending; no actuator call fails in this specification,
\* nor do the fade-backs get past their sleep (flash_duration) in it
Flashes ==
    \E t \in DOMAIN tasks :
      /\ MayStep(t)
      /\ Stepped(t)
      /\
        \/ flash_led_begin(t)
        \/ flash_led_resume(t)
        \/ flash_led_set_brightness(t)
        \/ flash_led_create_fade(t)
        \/ fade_back_begin(t)
        \/ fade_back_cancelled(t)

\* Task.cancel schedules the last step of the cancelled task at once, the timeout
\* of wait_for comes 0.01 s after the wait began: the cancelled task ends first
NoCancelPending == \A h \in DOMAIN tasks : tasks[h].cancel => tasks[h].pc = "done"

\* the scheduling loop, its timeout in that order
TimelyConsumer ==
    \/ run_drain
    \/ run_take
    \/ run_take_wake
    \/ NoCancelPending /\ run_take_timeout

InitOrder == InitWith(OrderKicks, OrderMidis, 0, 0)
NextOrder == run_setup \/ Hit \/ TimelyConsumer \/ Flashes
SpecOrder == InitOrder /\ [][NextOrder]_vars

\* the listener thread message by message, the port failing in mid-run, and the
\* scheduling loop, which keeps being scheduled; a cancellation is delivered at
\* the next await of run, and the awaits of cleanup return
Listen == \E msg \in Messages : process_midi_message(msg)
InitListen == InitWith(ListenKicks, ListenMidis, ListenFaults, 0)
NextListen == run_setup \/ Listen \/ listen_error \/ Consumer \/ Interrupt \/ Shutdown
SpecListen ==
    /\ InitListen /\ [][NextListen]_vars
    /\ WF_vars(run_setup) /\ WF_vars(Consumer) /\ SF_vars(Shutdown)

\* setup_midi with every list of ports, every port asked for by name, and every
\* answer at the prompt
InitPorts == InitWith(0, 0, 0, 0)
NextPorts ==
    \E ports \in PortLists, midi_port \in PortNames \cup {NoPort, MissingPort},
       choice \in Choices : call_setup_midi(ports, midi_port, choice)
SpecPorts == InitPorts /\ [][NextPorts]_vars

\* the MIDIHandler object under every sequence of calls of connect,
\* start_listening, stop_listening and disconnect, and its listener threads
InitHandler == InitWith(0, 0, 0, 0)
NextHandler ==
    \/ call_connect
    \/ call_start_listening
    \/ call_stop_listening
    \/ call_disconnect
    \/ listen_error
    \/ stray_ends
SpecHandler == InitHandler /\ [][NextHandler]_vars

\* the LEDController object: set_brightness with every integer around 0..100 and
\* set_color, before the connection, during it and after the disconnection
InitLed == InitWith(0, 0, 0, 0)
NextLed ==
    \/ call_led_connect
    \/ call_led_disconnect
    \/ \E brightness \in Brightnesses : call_set_brightness(brightness)
    \/ \E color \in {WHITE, << 255, 0, 0 >>} : call_set_color(color)
SpecLed == InitLed /\ [][NextLed]_vars

\* the DrumMapper object and the fade formula, called with every argument
Dicts == UNION {[S -> OverrideColors] : S \in SUBSET OverrideTypes}
InitMapper == InitWith(0, 0, 0, 0)
NextMapper ==
    \/ \E d \in Dicts, b \in BOOLEAN : new_mapper(d, b)
    \/ \E t \in OverrideTypes, c \in OverrideColors : set_drum_color(t, c)
    \/ \E note \in RawIds : call_get_drum_type(note)
    \/ \E note \in RawIds : call_get_color(note)
    \/ \E velocity \in Intensities : call_get_brightness(velocity)
    \/ \E brightness \in Percent : call_fade_brightness(brightness)
SpecMapper == InitMapper /\ [][NextMapper]_vars

\* the routing of hits of several categories through the queues to the dispatch
RouteHit ==
    /\ \E note \in RouteNotes, velocity \in RouteVelocities :
          midi_callback(note, velocity)
    /\ Heard("hits")
InitRoute == InitWith(RouteKicks, RouteMidis, 0, 0)
NextRoute == run_setup \/ RouteHit \/ Consumer
SpecRoute == InitRoute /\ [][NextRoute]_vars

\* the scheduling loop with errors raised in its body and with the interrupt; the
\* loop keeps running until the interrupt reaches it
InitLoop == InitWith(LoopKicks, LoopMidis, LoopFaults, 0)
NextLoop == run_setup \/ Hit \/ Consumer \/ run_error \/ Interrupt \/ Shutdown
SpecLoop == InitLoop /\ [][NextLoop]_vars /\ WF_vars(run_setup) /\ WF_vars(Consumer)

-----------------------------------------------------------------------------
(* The claims *)

Capacity(cls) == MaxsizeOf(cls)
Classes == {"kick", "midi"}
Ids(q) == [i \in DOMAIN q |-> q[i].id]
\* the arrival numbers a..b, in order
Span(a, b) == [i \in 1..(b - a + 1) |-> a + i - 1]
TaskOf(ev) == {p \in ProcessIds : tasks[p].ev = ev}
Flashed == << "set_color", "set_brightness" >>

\* C1: with no dequeue by the scheduling loop, a queue never holds more than its
\* capacity N (5 kicks, 10 others), and once an offer has returned it holds exactly
\* the last min(N, offered) events offered to it, in arrival order.
C1_DropOldest ==
    \A cls \in Classes :
        /\ Len(QueueOf(cls)) <= Capacity(cls)
        /\ cb.pc = "idle" =>
             Ids(QueueOf(cls)) =
                Span(offered[cls] - Min(Capacity(cls), offered[cls]) + 1, offered[cls])

C1_Witness ==
    /\ cb.pc = "idle"
    /\ offered["kick"] > KickMaxsize
    /\ offered["midi"] > MidiMaxsize

\* C2 (as claimed): once an animation starts while another of its class is Flashing
\* or FadingBack, the earlier one issues no fade-back call any more, and the later
\* one, if no actuator call of its own raised, issues its two flash calls once each.
C2_SecondReplacesFirst ==
    \A p2 \in ProcessIds :
        /\ \A x \in tasks[p2].preempts : FadeCalls(x[1]) = x[2]
        /\ (done(p2) /\ ~tasks[p2].faulted) => tasks[p2].calls = Flashed

\* C3 (as claimed): every fade_back task that is not done is the one its class's
\* handle refers to, so there is at most one per class; and a process task that
\* cancelled a predecessor issues no actuator call before that predecessor is done.
C3_OneAnimationPerClass ==
    /\ \A f \in FadeIds : ~done(f) => f = ActiveTask(tasks[f].is_kick)
    /\ \A p \in ProcessIds :
          (tasks[p].awaiting # 0 /\ tasks[p].calls # << >>) => done(tasks[p].awaiting)

\* C4: an event dequeued by the loop at an age above max_event_age has no
\* process task, hence no actuator call; one dequeued at an age of at most
\* max_event_age (the threshold itself included) has its process task; and every
\* process task is for an event that was dequeued fresh.
C4_Staleness ==
    /\ \A x \in taken :
          IF x.age > max_event_age THEN TaskOf(x.ev) = {}
          ELSE Cardinality(TaskOf(x.ev)) = 1
    /\ \A p \in ProcessIds :
          \E x \in taken : x.ev = tasks[p].ev /\ x.age <= max_event_age

C4_Witness ==
    /\ \E x \in taken : x.age > max_event_age
    /\ \E x \in taken : x.age = max_event_age /\
          \E p \in TaskOf(x.ev) : tasks[p].calls = Flashed

\* C5 (as claimed): a kick is dispatched before every other event that was
\* enqueued no later than the kick's dispatch; so no event of midi_queue is
\* dispatched while a kick is waiting in kick_queue (that kick would be dispatched
\* after an event enqueued before the kick's dispatch).
C5_KickBeforeEarlierNormal ==
    \A n \in ProcessIds : ~tasks[n].is_kick => ~tasks[n].kick_waiting

\* C5 (amended): while the loop is in the take on midi_queue, every kick in
\* kick_queue was queued after the loop's last get_nowait on kick_queue, which
\* found it empty: an event of midi_queue is dispatched ahead of a queued kick
\* only if that kick arrived after the drain pass ended.
C5_KicksDrainedBeforeTake ==
    loop.pc \in {"take", "wait"} => Range(kick_queue) \subseteq sincePoll

C5_Witness ==
    /\ loop.pc = "wait"
    /\ kick_queue # << >>
    /\ midi_queue # << >>
    /\ \E p \in ProcessIds : tasks[p].is_kick

\* C6 (as claimed): no callback returns without its event having been queued.
C6_OfferNeverFails == dropped = {}

Victims == {x.victim : x \in evictions}
Taken == {x.ev : x \in taken}
Queued == Range(kick_queue) \cup Range(midi_queue)

\* C7 (as claimed): the callback removes an event only from a queue that is at
\* capacity at that moment, only the oldest one, and at most one per offer; and
\* every event offered is in exactly one place: in the callback's hands, in its
\* queue, dequeued by the loop, evicted, or (never) dropped.
C7_EvictOnlyWhenFull ==
    /\ \A x \in evictions : x.qsize = Capacity(x.cls) /\ x.oldest
    /\ \A x \in evictions, y \in evictions : x.by = y.by => x = y
    /\ Victims \cap Taken = {}
    /\ Queued \cap (Victims \cup Taken) = {}
    /\ Cardinality(Queued) = Len(kick_queue) + Len(midi_queue)

\* C8: a fade_back task whose cancel() was requested issues no actuator call
\* after the request; requested before the sleep is over, it issues none at all.
C8_NoFadeAfterCancel ==
    \A f \in FadeIds :
        tasks[f].cancel => Len(tasks[f].calls) = tasks[f].callsAtCancel

C8_Witness ==
    \E f \in FadeIds :
        /\ tasks[f].outcome = "cancelled"
        /\ tasks[f].calls = << >>
        /\ \E p \in ProcessIds : tasks[p].awaiting = f /\ tasks[p].calls = Flashed

\* C9 (as claimed): while the loop keeps running, an event at the head of either
\* queue does not stay there for ever: from every state in which a queue holds an
\* event, a later state is reached in which an event has left that queue. The
\* kicks may keep arriving, but not faster than the loop removes them: again and
\* again kick_queue.get_nowait() finds the queue empty.
C9_NeitherClassStarves ==
    ([]<><<run_drain /\ empty(kick_queue)>>_vars) =>
        \A cls \in Classes : \A b \in {0, 1} :
            (QueueOf(cls) # << >> /\ removed[cls] = b) ~> (removed[cls] # b)

\* C10: an actuator error stays in the task whose call raised: a process task that
\* failed leaves no fade_back behind, no task ends in error without a call of its
\* own having raised, every process task that ended without one has flashed, and
\* the scheduling loop stays in its cycle.
C10_ErrorsAbsorbed ==
    /\ \A p \in ProcessIds : tasks[p].outcome = "error" => FadesOf(p) = {}
    /\ \A t \in DOMAIN tasks : tasks[t].outcome = "error" => tasks[t].faulted
    /\ \A p \in ProcessIds :
          (done(p) /\ ~tasks[p].faulted) =>
              tasks[p].outcome = "ok" /\ tasks[p].calls = Flashed
    /\ running => loop.pc \in {"drain", "take", "wait"}

C10_Witness ==
    \E p1 \in ProcessIds, p2 \in ProcessIds, p3 \in ProcessIds :
        /\ tasks[p1].outcome = "error"
        /\ p1 < p2 /\ tasks[p2].is_kick = tasks[p1].is_kick
        /\ p1 < p3 /\ tasks[p3].is_kick # tasks[p1].is_kick
        /\ tasks[p2].outcome = "ok" /\ tasks[p2].calls = Flashed
        /\ tasks[p3].outcome = "ok" /\ tasks[p3].calls = Flashed

\* C11: until the interrupt is delivered the scheduling loop is running and in its
\* cycle, whatever errors were raised in its body; and while it is, an event
\* waiting in either queue is eventually removed by the loop, so the loop still
\* dequeues after an error.
C11_LoopEndsOnlyOnSignal ==
    /\ []((loop.pc # "setup" /\ ~signal) => (running /\ loop.pc \in Cycle))
    /\ [](loop.pc \notin Cycle \cup {"setup"} => ~running)
    /\ \A cls \in Classes : \A b \in {0, 1} :
          (QueueOf(cls) # << >> /\ removed[cls] = b) ~> (removed[cls] # b \/ signal)

\* an event was dequeued and lost to an error, and a later event of its class was
\* dispatched
C11_Witness ==
    /\ ~signal
    /\ \E x \in taken : \E p \in ProcessIds :
          /\ TaskOf(x.ev) = {}
          /\ IsKickNote(tasks[p].ev.note) = IsKickNote(x.ev.note)
          /\ tasks[p].ev.id > x.ev.id

\* C12: a queued event is in kick_queue if and only if its note is 35 or 36; every
\* event offered is in one queue or was dequeued once; a dispatched event is an
\* is_kick animation if and only if its note is 35 or 36; and note 36 at velocity
\* 127 is dispatched as a kick with color (255, 0, 0) and brightness 100.
C12_Routing ==
    /\ \A ev \in Range(kick_queue) : ev.note \in {35, 36}
    /\ \A ev \in Range(midi_queue) : ev.note \notin {35, 36}
    /\ cb.pc = "idle" =>
          offered["kick"] + offered["midi"] =
              Len(kick_queue) + Len(midi_queue) + Cardinality(taken)
    /\ \A p \in ProcessIds :
          /\ tasks[p].is_kick <=> tasks[p].ev.note \in {35, 36}
          /\ (tasks[p].ev.note = 36 /\ tasks[p].ev.velocity = 127) =>
                /\ tasks[p].is_kick
                /\ tasks[p].color = << 255, 0, 0 >>
                /\ tasks[p].brightness = 100

C12_Witness ==
    /\ \E p \in ProcessIds : tasks[p].ev.note = 36 /\ tasks[p].ev.velocity = 127
    /\ \E p \in ProcessIds : tasks[p].ev.note = 35 /\ tasks[p].is_kick
    /\ \E p \in ProcessIds : tasks[p].ev.note = 37 /\ ~tasks[p].is_kick
    /\ \E p \in ProcessIds : tasks[p].ev.note = 60 /\ ~tasks[p].is_kick

\* the General MIDI table, id by id
Table17 ==
    {<< 35, "kick" >>, << 36, "kick" >>, << 38, "snare" >>, << 40, "snare" >>,
     << 42, "hihat" >>, << 44, "hihat" >>, << 46, "hihat" >>, << 49, "crash" >>,
     << 57, "crash" >>, << 51, "ride" >>, << 59, "ride" >>, << 41, "tom" >>,
     << 43, "tom" >>, << 45, "tom" >>, << 47, "tom" >>, << 48, "tom" >>,
     << 50, "tom" >>}

\* C13: get_drum_type returns, for every raw id, one of the seven categories: the
\* table's category for the 17 mapped ids and unknown for every other id, ids
\* below 0 and above 127 included; the result depends on the id alone, and the
\* call changes nothing of the mapper.
C13_ClassifyTotal ==
    /\ [](call.fn = "get_drum_type" =>
            /\ call.result \in DrumTypes
            /\ \A x \in Table17 : call.arg = x[1] => call.result = x[2]
            /\ (\A x \in Table17 : call.arg # x[1]) => call.result = "unknown")
    /\ [][call'.fn = "get_drum_type" => mapper' = mapper]_vars

C13_Witness ==
    /\ call.fn = "get_drum_type"
    /\ call.arg = 0 - 1
    /\ call.result = "unknown"
    /\ mapper.configured # << >>

\* C14: with the velocity mapping enabled get_brightness gives 30 at intensity 0
\* and 100 at intensity 127; with the mapping disabled it gives 100 at every
\* intensity.
C14_BrightnessEnds ==
    call.fn = "get_brightness" =>
        /\ (mapper.velocity_to_brightness /\ call.arg = 0) => call.result = 30
        /\ (mapper.velocity_to_brightness /\ call.arg = 127) => call.result = 100
        /\ ~mapper.velocity_to_brightness => call.result = 100

C14_Witness ==
    /\ call.fn = "get_brightness"
    /\ call.arg = 0
    /\ ~mapper.velocity_to_brightness
    /\ call.result = 100

\* C15 (as claimed): with the velocity mapping enabled, get_brightness gives a
\* brightness within 30..100 at every intensity, 30 at every intensity of at most
\* 0 and 100 at every intensity of at least 127.
C15_BrightnessClamped ==
    (call.fn = "get_brightness" /\ mapper.velocity_to_brightness) =>
        /\ call.result \in 30..100
        /\ call.arg <= 0 => call.result = 30
        /\ call.arg >= 127 => call.result = 100

\* C16 (as claimed): every category whose color was configured, through the
\* constructor or through set_drum_color, has that color, and every other
\* category has its default color.
C16_OverridesReplaceOnly ==
    \A note \in RawIds :
        get_color(note) =
            dict_get(mapper.configured, get_drum_type(note),
                     DEFAULT_DRUM_COLORS(get_drum_type(note)))

\* C17 (as claimed): the fade brightness for a hit of brightness b in 0..100 is
\* max(20, r) for an integer r nearest to 0.3 * b (either neighbour at a tie).
C17_FadeRounds ==
    call.fn = "fade_brightness" =>
        \E r \in 0..100 :
            /\ 10 * r - 3 * call.arg \in (0 - 5)..5
            /\ call.result = Max(20, r)

\* C18: of a burst of kicks that arrived before any dequeue, the queue holds the
\* last five in arrival order; no kick evicted by the overflow is ever dequeued,
\* dispatched or animated, and each of the five is dispatched at most once.
LastKicks == Span(BurstKicks - Min(KickMaxsize, BurstKicks) + 1, BurstKicks)
C18_EvictedNeverDispatched ==
    /\ (BurstOver /\ taken = {}) => Ids(kick_queue) = LastKicks
    /\ \A x \in taken : IsKickNote(x.ev.note) => x.ev.id \in Range(LastKicks)
    /\ \A x \in evictions : x.cls = "kick" => x.victim.id \notin Range(LastKicks)
    /\ \A t \in DOMAIN tasks : tasks[t].is_kick => tasks[t].ev.id \in Range(LastKicks)
    /\ \A p, q \in ProcessIds :
          (tasks[p].is_kick /\ tasks[q].is_kick /\ tasks[p].ev.id = tasks[q].ev.id) => p = q

C18_Witness ==
    /\ BurstOver
    /\ Cardinality(evictions) = BurstKicks - KickMaxsize
    /\ Cardinality({p \in ProcessIds : tasks[p].is_kick}) = KickMaxsize
    /\ \E p \in ProcessIds : tasks[p].ev.id = BurstKicks
    /\ empty(kick_queue)

\* C19 (as claimed): once cleanup has completed, the brightness and the color the
\* actuator was last given are the baseline brightness and the baseline color.
C19_BaselineRestored ==
    loop.pc = "stopped" =>
        /\ led.brightness = original_brightness
        /\ led.color = original_color

\* C20: original_color and original_brightness change in no step but setup_led:
\* from the end of setup on they are white and 50, and every fade_back that sets
\* a color sets white.
C20_BaselineFixed ==
    /\ [](loop.pc # "setup" =>
            (original_color = WHITE /\ original_brightness = DefaultBrightness))
    /\ [][loop.pc # "setup" =>
            UNCHANGED << original_color, original_brightness >>]_vars
    /\ [][\A f \in FadeIds :
            (tasks[f].pc = "in_set_brightness" /\ tasks'[f].pc = "in_set_color")
                => led'.color = WHITE]_vars

\* two animations have faded back to the baseline color, one after a
\* cancellation, and cleanup has run
C20_Witness ==
    /\ loop.pc = "stopped"
    /\ \E f, g \in FadeIds :
          /\ f # g
          /\ tasks[f].outcome = "cancelled"
          /\ tasks[g].calls = << "set_brightness", "set_color" >>
    /\ original_color = WHITE
    /\ original_brightness = DefaultBrightness

\* C21: a handle refers to a fade of its own class only; a task awaits a task of
\* its own class only; and a cancellation is requested only by a starting
\* animation of the same class as the task it cancels.
C21_ClassesIndependent ==
    /\ [](/\ active_kick_task # 0 => tasks[active_kick_task].is_kick
          /\ active_led_task # 0 => ~tasks[active_led_task].is_kick
          /\ \A t \in ProcessIds :
                tasks[t].awaiting # 0 =>
                    tasks[tasks[t].awaiting].is_kick = tasks[t].is_kick)
    /\ [][\A f \in DOMAIN tasks :
            (~tasks[f].cancel /\ tasks'[f].cancel) =>
                \E t \in ProcessIds :
                    /\ tasks[t].pc = "start"
                    /\ tasks'[t].awaiting = f
                    /\ tasks[t].is_kick = tasks[f].is_kick]_vars

\* a kick flashes while the fade of another hit is pending and uncancelled, both
\* handles are set, and a fade of the kick class was cancelled by a later kick
C21_Witness ==
    /\ \E p \in ProcessIds, f \in FadeIds :
          /\ tasks[p].is_kick
          /\ tasks[p].pc = "in_set_color"
          /\ ~tasks[f].is_kick
          /\ tasks[f].pc = "sleep"
          /\ ~tasks[f].cancel
          /\ active_led_task = f
    /\ \E g \in FadeIds : tasks[g].is_kick /\ tasks[g].outcome = "cancelled"

\* C22 (as claimed): once the listener thread has ended with an error, run stops
\* its scheduling loop.
C22_DisconnectStopsRun == (handler.thread = "ended") ~> ~running

\* C23: every note_on message with a velocity above 0 is one invocation of the
\* callback, which queued its event unless it raised; no other message changes
\* anything but the log; no event anywhere has velocity 0; and a callback that
\* raises leaves the listener thread in its loop.
EventsSeen ==
    Range(kick_queue) \cup Range(midi_queue) \cup {x.ev : x \in taken}
        \cup {tasks[t].ev : t \in DOMAIN tasks}
C23_OnlyHitsReachCallback ==
    /\ [](/\ offered["kick"] + offered["midi"] + heard.raised = heard.hits
          /\ Len(kick_queue) + Len(midi_queue) + Cardinality(taken)
                = heard.hits - heard.raised
          /\ \A ev \in EventsSeen : ev.velocity > 0)
    /\ [][heard'.quiet # heard.quiet =>
            UNCHANGED << kick_queue, midi_queue, offered, cb, tasks, handler >>]_vars
    /\ [][heard'.raised # heard.raised => (Listening /\ Listening')]_vars

\* a note off and a raising callback went by, and a later hit was queued
C23_Witness ==
    /\ heard.quiet > 0
    /\ heard.raised > 0
    /\ heard.hits > heard.raised
    /\ Listening
    /\ kick_queue # << >>

\* C24: a step of _midi_callback changes, of the program's state, only the queue
\* of its event's class: the other queue, the handles, the baseline, the tasks,
\* the loop and the actuator stay as they are; and the callback never waits: in
\* the middle of an offer its next step can always be taken.
CallbackClass ==
    IF cb.pc = "idle"
      THEN IF offered'["kick"] # offered["kick"] THEN "kick" ELSE "midi"
      ELSE ClassOf(IsKickNote(cb.ev.note))
C24_OfferTouchesOneQueue ==
    /\ [][(offered' # offered \/ cb' # cb) =>
            /\ UNCHANGED << led, active_led_task, active_kick_task, original_color,
                            original_brightness, tasks, loop, running, handler >>
            /\ CallbackClass = "kick" => UNCHANGED midi_queue
            /\ CallbackClass = "midi" => UNCHANGED kick_queue]_vars
    /\ [](cb.pc # "idle" => ENABLED (midi_callback_evict \/ midi_callback_reput))

\* the callback is between the eviction and the second put of a hit that is not
\* a kick, and the kick queue is full
C24_Witness ==
    /\ cb.pc = "reput"
    /\ ~IsKickNote(cb.ev.note)
    /\ Len(midi_queue) = MidiMaxsize - 1
    /\ Len(kick_queue) = KickMaxsize
    /\ led.connected

\* C25: a dispatch by the loop creates a task that has not run yet and issues no
\* actuator call, and the loop goes on in its cycle; the loop can always take its
\* next step, whatever the tasks are doing; and the tasks step only while the loop
\* is at its wait on midi_queue.
C25_DispatchDoesNotBlock ==
    /\ [][(Len(tasks') > Len(tasks) /\ tasks'[Len(tasks')].kind = "process") =>
            /\ tasks'[Len(tasks')].pc = "start"
            /\ tasks'[Len(tasks')].calls = << >>
            /\ UNCHANGED << led, active_led_task, active_kick_task >>
            /\ loop'.pc = "drain"]_vars
    /\ [](loop.pc \in Cycle => ENABLED Consumer)
    /\ [][(\E t \in DOMAIN tasks : tasks'[t].pc # tasks[t].pc) =>
            loop.pc \in {"take", "wait"}]_vars

\* the loop is back at its drain after two dispatches while the first animation
\* is in its flash and the second has not started
C25_Witness ==
    /\ loop.pc = "drain"
    /\ \E p, q \in ProcessIds :
          /\ tasks[p].pc = "in_set_color"
          /\ tasks[q].pc = "start"
    /\ kick_queue # << >>

\* C26: the wait on midi_queue is a single one: the loop leaves it, by a timeout
\* or with one event, straight for the kick drain; it removes an event from
\* midi_queue only in such a step; and it does not leave the drain while a kick is
\* queued. So a kick queued during the wait is dequeued in the drain that follows
\* it, after at most one event of midi_queue.
C26_KickWaitsOneWindow ==
    /\ [][(loop.pc = "wait" /\ loop' # loop) => loop'.pc = "drain"]_vars
    /\ [][(loop.pc = "take" /\ loop' # loop) => loop'.pc \in {"wait", "drain"}]_vars
    /\ [][removed'["midi"] # removed["midi"] =>
            (loop.pc \in {"take", "wait"} /\ loop'.pc = "drain"
                /\ Len(midi_queue') = Len(midi_queue) - 1)]_vars
    /\ [][(loop.pc = "drain" /\ loop'.pc # "drain") => empty(kick_queue)]_vars
    /\ [](loop.pc \in {"take", "wait"} => ENABLED (run_take \/ run_take_timeout))

\* a kick queued while the loop waited was dispatched by the drain that followed
\* the dispatch of one other hit, and the loop is in its next wait
C26_Witness ==
    /\ loop.pc = "wait"
    /\ \E n, k \in ProcessIds :
          /\ ~tasks[n].is_kick
          /\ tasks[n].kick_waiting
          /\ tasks[k].is_kick
          /\ k = n + 1
    /\ empty(kick_queue)

\* C27 (as claimed): the port connected to is the port asked for by name if it is
\* listed (a failure if it is not), otherwise the first hardware port, otherwise
\* the first port with the marker iac or garageband, otherwise the first port.
PortByPrecedence(ports, midi_port) ==
    IF ports = << >> THEN Failed
    ELSE IF midi_port # NoPort
      THEN IF \E i \in DOMAIN ports : ports[i] = midi_port THEN midi_port ELSE Failed
      ELSE IF \E i \in DOMAIN ports : ~is_virtual(ports[i])
        THEN first_port(ports, Hardware)
        ELSE IF \E i \in DOMAIN ports : has_marker(ports[i])
          THEN first_port(ports, Marked)
          ELSE ports[1]
C27_PortPrecedence ==
    call.fn = "setup_midi" =>
        call.result = PortByPrecedence(call.arg.ports, call.arg.midi_port)

\* C28: the loop enters the take on midi_queue only from a drain whose get_nowait
\* found kick_queue empty with no fresh kick dispatched in the pass; a pass that
\* dispatched a fresh kick starts the drain again; a kick dequeued in the drain,
\* fresh or stale, leaves the loop in the drain; and the loop leaves the take, with
\* a fresh event, a stale one or a timeout, for a new drain.
C28_TakeOnlyAfterEmptyDrain ==
    /\ [][(loop'.pc = "take" /\ loop.pc # "take") =>
            (loop.pc = "drain" /\ empty(kick_queue) /\ ~loop.kick_processed)]_vars
    /\ [][(loop.pc = "drain" /\ empty(kick_queue) /\ loop.kick_processed
                /\ loop' # loop) =>
            (loop' = [pc |-> "drain", kick_processed |-> FALSE]
                /\ UNCHANGED << midi_queue, tasks >>)]_vars
    /\ [][(loop.pc = "drain" /\ removed'["kick"] # removed["kick"]) =>
            /\ loop'.pc = "drain"
            /\ kick_queue' = Tail(kick_queue)
            /\ loop'.kick_processed =
                  (loop.kick_processed \/ now - Head(kick_queue).timestamp <= max_event_age)]_vars
    /\ [][(loop.pc \in {"take", "wait"} /\ loop'.pc \notin {"take", "wait"}) =>
            loop' = [pc |-> "drain", kick_processed |-> FALSE]]_vars
    /\ [][removed'["midi"] # removed["midi"] => loop.pc \in {"take", "wait"}]_vars

\* in one drain pass a stale kick was skipped and a fresh one dispatched, while
\* another hit waits in midi_queue
C28_Witness ==
    /\ loop = [pc |-> "drain", kick_processed |-> TRUE]
    /\ \E x \in taken : IsKickNote(x.ev.note) /\ x.age > max_event_age
    /\ \E p \in ProcessIds : tasks[p].is_kick
    /\ empty(kick_queue)
    /\ ~empty(midi_queue)
    /\ \A p \in ProcessIds : tasks[p].is_kick

\* C29: the calls of a flash are at every moment a beginning of set_color,
\* set_brightness, and those of its fade a beginning of set_brightness, set_color;
\* a fade exists only once its flash has made both calls, and makes its first call
\* only after its sleep; an animation whose flash and fade both ended without
\* error or cancellation has made exactly these four calls; and each call gives the
\* actuator the hit's color, the hit's brightness, the fade brightness and the
\* baseline color, in this order.
IsPrefix(s, t) == Len(s) <= Len(t) /\ s = SubSeq(t, 1, Len(s))
FadeOrder == << "set_brightness", "set_color" >>
Grew(t, name) ==
    /\ Len(tasks'[t].calls) = Len(tasks[t].calls) + 1
    /\ tasks'[t].calls[Len(tasks'[t].calls)] = name
C29_FourCallsInOrder ==
    /\ [](\A p \in ProcessIds :
            /\ IsPrefix(tasks[p].calls, Flashed)
            /\ Cardinality(FadesOf(p)) <= 1
            /\ \A f \in FadesOf(p) :
                  /\ tasks[p].calls = Flashed
                  /\ tasks[p].pc = "done"
                  /\ IsPrefix(tasks[f].calls, FadeOrder)
                  /\ tasks[f].pc \in {"start", "sleep"} => tasks[f].calls = << >>
                  /\ (tasks[p].outcome = "ok" /\ tasks[f].outcome = "ok") =>
                        tasks[f].calls = FadeOrder)
    /\ [][\A t \in DOMAIN tasks :
            /\ (tasks[t].kind = "process" /\ Grew(t, "set_color")) =>
                  led'.color = tasks[t].color
            /\ (tasks[t].kind = "process" /\ Grew(t, "set_brightness")) =>
                  led'.brightness = tasks[t].brightness
            /\ (tasks[t].kind = "fade" /\ Grew(t, "set_brightness")) =>
                  (tasks[t].pc = "sleep"
                     /\ led'.brightness = Max(20, (tasks[t].brightness * 3) \div 10))
            /\ (tasks[t].kind = "fade" /\ Grew(t, "set_color")) =>
                  led'.color = original_color]_vars

\* a kick's animation has gone through its four calls and ended, with nothing
\* cancelled and no error anywhere
C29_Witness ==
    /\ \E p \in ProcessIds : \E f \in FadesOf(p) :
          /\ tasks[p].is_kick
          /\ tasks[p].outcome = "ok"
          /\ tasks[f].outcome = "ok"
          /\ tasks[f].calls = FadeOrder
          /\ led.color = WHITE
          /\ led.brightness = 25
    /\ \A t \in DOMAIN tasks : tasks[t].outcome \in {"ok", "pending"}

\* C30 (as claimed): two events of one class that are both dispatched are
\* dispatched in the order they were offered, and the flash of the later one makes
\* no actuator call while the flash of the earlier one has yet to make its first.
SameClass(p, q) == tasks[p].is_kick = tasks[q].is_kick
DispatchedInOfferOrder ==
    \A p, q \in ProcessIds : (p < q /\ SameClass(p, q)) => tasks[p].ev.id < tasks[q].ev.id
C30_FlashesInOfferOrder ==
    /\ DispatchedInOfferOrder
    /\ \A p, q \in ProcessIds :
          (p < q /\ SameClass(p, q) /\ tasks[q].calls # << >>)
             => (tasks[p].calls # << >> \/ done(p))

\* C31 (as claimed): at most one listener thread is alive and running implies an
\* open port, after any sequence of connect, start_listening, stop_listening and
\* disconnect; start_listening changes nothing when the handler is running or
\* has no port, stop_listening changes nothing when it is not running.
AliveListeners == handler.strays + (IF handler.thread = "alive" THEN 1 ELSE 0)
C31_OneListener ==
    /\ AliveListeners <= 1
    /\ handler.running => handler.port = "open"
    /\ (call.fn = "start_listening" /\ (call.arg.running \/ call.arg.port = "none"))
          => call.result = call.arg
    /\ (call.fn = "stop_listening" /\ ~call.arg.running) => call.result = call.arg

\* C32: the brightness the device holds is within 0..100; a brightness command
\* that is written carries a brightness within 0..100 and the scaled byte
\* (brightness * 32) \div 100, within 0..32; a call made without a connected
\* client writes nothing; and no step changes what the device holds while the
\* client is not connected.
C32_WritesInRange ==
    /\ [](led.brightness \in 0..100 \/ led.brightness = 0 - 1)
    /\ []((call.fn = "set_brightness" /\ call.result # NotSent) =>
            /\ call.arg.connected
            /\ call.result[5] \in 0..100
            /\ call.result[4] \in 0..32
            /\ call.result[4] = (call.result[5] * 32) \div 100
            /\ call.arg.brightness \in 0..100 => call.result[5] = call.arg.brightness
            /\ led.brightness = call.result[5])
    /\ [](call.fn \in {"set_brightness", "set_color"} =>
            (call.result = NotSent <=> ~call.arg.connected))
    /\ [][~led.connected =>
            /\ led'.color = led.color
            /\ led'.brightness = led.brightness]_vars

\* set_brightness was called with a brightness above 100 after the
\* disconnection: nothing was written and the device holds the 100 it was given
\* while the client was connected
C32_Witness ==
    /\ call.fn = "set_brightness"
    /\ call.arg.brightness > 100
    /\ ~call.arg.connected
    /\ call.result = NotSent
    /\ led.brightness = 100

====
